---- MODULE Spec2Model ----
(***************************************************************************)
(* Model of RAGFlow.query (src/data_gemma/rag.py).                         *)
(*                                                                         *)
(* Text is a sequence of one-character strings, so that split, strip,      *)
(* substring search, formatting and joining are computed, not assumed.     *)
(* An optional keyword argument of FlowResponse is <<>> when it is not     *)
(* passed and <<v>> when it is passed with value v.                        *)
(* One action is one collaborator call together with the code of query     *)
(* around it; the table assembly of lines 97-114 is an action of its own.  *)
(***************************************************************************)
EXTENDS Integers, Sequences, FiniteSets, TLC

VARIABLES
  query,                  \* the argument of RAGFlow.query
  in_context,             \* self.in_context
  metrics_list,           \* self.metrics_list
  validate_dc_responses,  \* self.validate_dc_responses
  pc,                     \* position of the running query() call
  llm_calls,              \* local llm_calls
  questions,              \* local questions
  q2resp,                 \* local q2resp: its values, in iteration order
  dc_duration,            \* local dc_duration (<<>> before line 90)
  table_parts,            \* local table_parts
  dc_calls,               \* local dc_calls
  tables_str,             \* local tables_str (<<>> before line 109/114)
  result,                 \* the returned FlowResponse (<<>> while running)
  invoked,                \* every collaborator call query() made, in order
  fetch_raised            \* whether calln raised

vars == <<query, in_context, metrics_list, validate_dc_responses, pc,
          llm_calls, questions, q2resp, dc_duration, table_parts, dc_calls,
          tables_str, result, invoked, fetch_raised>>

config == <<query, in_context, metrics_list, validate_dc_responses>>

(***************************************************************************)
(* Bounds and program constants                                            *)
(***************************************************************************)
_MAX_QUESTIONS == 25

\* longest question-LLM response enumerated character by character
MaxRespLen == 3

\* most entries the data fetcher (and the validator) returns
MaxFetched == 2

(***************************************************************************)
(* Text helpers (Python str semantics)                                     *)
(***************************************************************************)
NL == "\n"

Whitespace == {" ", "\t", "\n", "\r"}

NO_ANSWER == <<"[", "N", "O", " ", "A", "N", "S", "W", "E", "R", "]">>

Min(a, b) == IF a <= b THEN a ELSE b

Range(s) == {s[i] : i \in 1..Len(s)}

\* sub in s
Contains(sub, s) ==
  \E i \in 0..(Len(s) - Len(sub)) : SubSeq(s, i + 1, i + Len(sub)) = sub

\* s.split('\n')
RECURSIVE Split(_)
Split(s) ==
  IF \A i \in 1..Len(s) : s[i] # NL
  THEN <<s>>
  ELSE LET i == CHOOSE k \in 1..Len(s) :
                   s[k] = NL /\ \A j \in 1..(k - 1) : s[j] # NL
       IN  <<SubSeq(s, 1, i - 1)>> \o Split(SubSeq(s, i + 1, Len(s)))

RECURSIVE LStrip(_)
LStrip(s) ==
  IF s # <<>> /\ Head(s) \in Whitespace THEN LStrip(Tail(s)) ELSE s

RECURSIVE RStrip(_)
RStrip(s) ==
  IF s # <<>> /\ s[Len(s)] \in Whitespace
  THEN RStrip(SubSeq(s, 1, Len(s) - 1))
  ELSE s

\* s.strip()
Strip(s) == RStrip(LStrip(s))

Digit == <<"0", "1", "2", "3", "4", "5", "6", "7", "8", "9">>

\* str(n) for n >= 0, as an f-string renders it
RECURSIVE Decimal(_)
Decimal(n) ==
  IF n < 10 THEN <<Digit[n + 1]>>
  ELSE Decimal(n \div 10) \o <<Digit[(n % 10) + 1]>>

\* '\n'.join(parts)
RECURSIVE Join(_)
Join(parts) ==
  IF parts = <<>> THEN <<>>
  ELSE IF Len(parts) = 1 THEN parts[1]
  ELSE parts[1] \o <<NL>> \o Join(Tail(parts))

(***************************************************************************)
(* Prompts.  The template texts live in prompts.py; a formatted prompt is  *)
(* the template's name with the keyword arguments it was formatted with.   *)
(* The template "{sentence}" is the text itself.                           *)
(***************************************************************************)
Prompt(template, sentence, metrics, table_str) ==
  [template |-> template, sentence |-> sentence,
   metrics_list |-> metrics, table_str |-> table_str]

RawText(text) == Prompt("{sentence}", text, <<>>, <<>>)

\* lines 57-74: the prompt of the question LLM
QuestionPrompt(q, inctx, metrics) ==
  IF inctx
  THEN IF metrics # <<>>
       THEN Prompt("RAG_IN_CONTEXT_PROMPT_WITH_VARS", q, metrics, <<>>)
       ELSE Prompt("RAG_IN_CONTEXT_PROMPT", q, <<>>, <<>>)
  ELSE Prompt("RAG_FINE_TUNED_PROMPT", q, <<>>, <<>>)

\* the record an LLM's query() returns
LLMCall(prompt, response) == [prompt |-> prompt, response |-> response]

\* one entry of the log of collaborator calls
Invocation(callee, prompt, response) ==
  [callee |-> callee, prompt |-> prompt, response |-> response]

NoPrompt == Prompt("", <<>>, <<>>, <<>>)

\* base.FlowResponse(...): each argument <<>> (not passed) or <<value>>
FlowResponse(main_text, tstr, calls, duration, dcs) ==
  [main_text |-> main_text, tables_str |-> tstr, llm_calls |-> calls,
   dc_duration_secs |-> duration, dc_calls |-> dcs]

(***************************************************************************)
(* Question extraction, lines 79-80                                        *)
(***************************************************************************)
NonEmpty(s) == s # <<>>

\* line 79: [q.strip() for q in response.split('\n') if q.strip()]
StrippedLines(text) ==
  LET pieces == Split(text)
  IN  SelectSeq([i \in 1..Len(pieces) |-> Strip(pieces[i])], NonEmpty)

RECURSIVE Orders(_)
Orders(S) ==
  IF S = {} THEN {<<>>}
  ELSE UNION {{<<x>> \o s : s \in Orders(S \ {x})} : x \in S}

RECURSIVE Enum(_)
Enum(S) ==
  IF S = {} THEN <<>>
  ELSE LET x == CHOOSE y \in S : TRUE IN <<x>> \o Enum(S \ {x})

Rotations(s) ==
  {SubSeq(s, k + 1, Len(s)) \o SubSeq(s, 1, k) : k \in 0..(Len(s) - 1)}

\* list(set(...)): the iteration order of a set of str depends on the hash
\* seed of the process.  Every order of a set of at most MaxRespLen
\* elements is produced; of a larger set, every rotation of one enumeration.
ListOfSet(S) ==
  IF Cardinality(S) <= MaxRespLen THEN Orders(S) ELSE Rotations(Enum(S))

\* the list without the cap of line 80
TruncateNone(list) == list

\* [:_MAX_QUESTIONS]
Truncate(list) == SubSeq(list, 1, Min(Len(list), _MAX_QUESTIONS))

\* line 80: the lists `questions` may be bound to
QuestionLists(text) ==
  {Truncate(l) : l \in ListOfSet(Range(StrippedLines(text)))}

(***************************************************************************)
(* Table assembly, lines 97-114                                            *)
(***************************************************************************)
\* f'Table {tidx}: {resp.answer()}'
TableLine(tidx, answer) ==
  <<"T", "a", "b", "l", "e", " ">> \o Decimal(tidx) \o <<":", " ">> \o answer

LoopInit == [table_parts |-> <<>>, table_titles |-> {}, dc_calls |-> <<>>]

\* the loop body assigning the id only to a response that adds a table line
LoopBodyIdOnTableOnly(st, resp) ==
  LET tidx == Len(st.dc_calls) + 1
      adds == resp.table # <<>> /\ resp.title \notin st.table_titles
  IN  [table_parts  |-> IF adds
                        THEN Append(st.table_parts, TableLine(tidx, resp.ans))
                        ELSE st.table_parts,
       table_titles |-> IF adds
                        THEN st.table_titles \cup {resp.title}
                        ELSE st.table_titles,
       dc_calls     |-> Append(st.dc_calls,
                          IF adds THEN [resp EXCEPT !.id = tidx] ELSE resp)]

\* the loop body recording the title of every response, table or not
LoopBodyMarksEveryTitle(st, resp) ==
  LET tidx == Len(st.dc_calls) + 1
      adds == resp.table # <<>> /\ resp.title \notin st.table_titles
  IN  [table_parts  |-> IF adds
                        THEN Append(st.table_parts, TableLine(tidx, resp.ans))
                        ELSE st.table_parts,
       table_titles |-> st.table_titles \cup {resp.title},
       dc_calls     |-> Append(st.dc_calls, [resp EXCEPT !.id = tidx])]

\* one iteration of the loop of line 100 (lines 101-106)
LoopBody(st, resp) ==
  LET tidx == Len(st.dc_calls) + 1
      adds == resp.table # <<>> /\ resp.title \notin st.table_titles
  IN  [table_parts  |-> IF adds
                        THEN Append(st.table_parts, TableLine(tidx, resp.ans))
                        ELSE st.table_parts,
       table_titles |-> IF adds
                        THEN st.table_titles \cup {resp.title}
                        ELSE st.table_titles,
       dc_calls     |-> Append(st.dc_calls, [resp EXCEPT !.id = tidx])]

\* the loop of lines 100-106 over q2resp.values()
RECURSIVE TableLoop(_, _)
TableLoop(st, values) ==
  IF values = <<>> THEN st
  ELSE TableLoop(LoopBody(st, Head(values)), Tail(values))

\* lines 107-114: tables_str
TablesStr(parts) == IF parts # <<>> THEN Join(parts) ELSE <<>>

\* the final prompt formatted from the template even without table parts
FinalPromptAlwaysTemplate(q, parts) ==
  Prompt("RAG_FINAL_ANSWER_PROMPT", q, <<>>, Join(parts))

\* lines 107-114: final_prompt
FinalPrompt(q, parts) ==
  IF parts # <<>>
  THEN Prompt("RAG_FINAL_ANSWER_PROMPT", q, <<>>, Join(parts))
  ELSE RawText(q)

(***************************************************************************)
(* Results, lines 77 and 120-136                                           *)
(***************************************************************************)
\* the early exit passing the empty response text as main_text
QuestionExitWithText(calls) == FlowResponse(<< <<>> >>, <<>>, calls, <<>>, <<>>)

\* line 77
QuestionExit(calls) == FlowResponse(<<>>, <<>>, calls, <<>>, <<>>)

\* the retry test as equality with the marker
NeedsRetryEquals(text) == text = NO_ANSWER

\* line 120
NeedsRetry(text) == Contains(NO_ANSWER, text)

\* the result passing dc_calls only when a table was found
PackageResultsWithTables(text, tstr, calls, duration, dcs) ==
  IF text = <<>>
  THEN FlowResponse(<<>>, <<>>, calls, duration, <<>>)
  ELSE FlowResponse(<<text>>, tstr, calls, duration,
                    IF tstr = << <<>> >> THEN <<>> ELSE <<dcs>>)

\* the result without the empty-answer exit of lines 125-128
PackageKeepsTables(text, tstr, calls, duration, dcs) ==
  FlowResponse(IF text = <<>> THEN <<>> ELSE <<text>>, tstr, calls, duration,
               <<dcs>>)

\* lines 125-136
Package(text, tstr, calls, duration, dcs) ==
  IF text = <<>>
  THEN FlowResponse(<<>>, <<>>, calls, duration, <<>>)
  ELSE FlowResponse(<<text>>, tstr, calls, duration, <<dcs>>)

\* the validator run whatever validate_dc_responses says
AfterFetchAlwaysValidates(validate) == "validate"

\* line 92
AfterFetch(validate) == IF validate THEN "validate" ELSE "assemble"

(***************************************************************************)
(* The environment: inputs and what the collaborators may answer           *)
(***************************************************************************)
Queries == {<<"q">>, <<"w", "h", "o", "?">>}

MetricsLists == {<<>>, <<"m">>}

Alphabet == {"a", "b", " ", "\t", NL}

ShortTexts == UNION {[1..n -> Alphabet] : n \in 0..MaxRespLen}

Letters == <<"a", "b", "c", "d", "e", "f">>

\* n pairwise different two-letter lines, newline-separated
ManyLines(n) ==
  Join([i \in 1..n |->
          <<Letters[((i - 1) \div Len(Letters)) + 1],
            Letters[((i - 1) % Len(Letters)) + 1]>>])

LongTexts ==
  {ManyLines(n) : n \in (_MAX_QUESTIONS - 1)..(_MAX_QUESTIONS + 2)}
    \cup {ManyLines(_MAX_QUESTIONS + 1) \o <<NL, " ">>
            \o ManyLines(_MAX_QUESTIONS + 1)}

\* what the question LLM answers in the extraction specification
AllQuesResponses == ShortTexts \cup LongTexts

\* what the question LLM answers in the flow specification: nothing, only
\* blank lines, and lines with a duplicate, padding and a blank line
FlowQuesResponses ==
  {<<>>, <<" ", NL>>, <<"a", " ", NL, NL, "a", NL, " ", "b">>}

AnswerTexts ==
  {<<>>, <<"o", "k">>, NO_ANSWER, <<"x">> \o NO_ANSWER \o <<"y">>,
   Tail(NO_ANSWER)}

\* a retrieval response as the fetcher creates it (id not yet assigned)
Resp(table, title, ans) ==
  [table |-> table, title |-> title, ans |-> ans, id |-> 0]

Responses ==
  {Resp(<<>>, ti, <<"x">>) : ti \in {"A", "B"}}
    \cup {Resp(<<"t">>, ti, an) : ti \in {"A", "B"}, an \in {<<"x">>, <<"y">>}}

Mappings == UNION {[1..n -> Responses] : n \in 0..MaxFetched}

\* calln either raises or returns a mapping
FetchOutcomes ==
  {[raised |-> TRUE, values |-> <<>>]}
    \cup {[raised |-> FALSE, values |-> m] : m \in Mappings}

\* time.time() - start
Elapsed == {0, 1}

\* validate.run_validation: returns the mapping with some entries dropped
\* and may append call records of its own to the list it is given
RECURSIVE SubSeqs(_)
SubSeqs(s) ==
  IF s = <<>> THEN {<<>>}
  ELSE LET rest == SubSeqs(Tail(s))
       IN  rest \cup {<<Head(s)>> \o r : r \in rest}

ValidatorCalls ==
  {<<>>, <<LLMCall(Prompt("VALIDATION", <<>>, <<>>, <<>>), <<"y">>)>>}

run_validation(mapping, calls) ==
  {[q2resp |-> kept, llm_calls |-> calls \o extra] :
     kept \in SubSeqs(mapping), extra \in ValidatorCalls}

(***************************************************************************)
(* State machine                                                           *)
(***************************************************************************)
Idle ==
  /\ pc = "ask"
  /\ llm_calls = <<>>
  /\ questions = <<>>
  /\ q2resp = <<>>
  /\ dc_duration = <<>>
  /\ table_parts = <<>>
  /\ dc_calls = <<>>
  /\ tables_str = <<>>
  /\ result = <<>>
  /\ invoked = <<>>
  /\ fetch_raised = FALSE

Init ==
  /\ query \in Queries
  /\ in_context \in BOOLEAN
  /\ metrics_list \in MetricsLists
  /\ validate_dc_responses \in BOOLEAN
  /\ Idle

\* lines 57-80: the question LLM is queried with the prompt of the mode;
\* an empty response returns at once, any other yields the question list
QuestionLLMFrom(texts) ==
  /\ pc = "ask"
  /\ \E text \in texts :
       LET prompt == QuestionPrompt(query, in_context, metrics_list)
           ques_resp == LLMCall(prompt, text)
       IN  /\ llm_calls' = <<ques_resp>>
           /\ invoked' = Append(invoked,
                Invocation("llm_question.query", prompt, text))
           /\ IF text = <<>>
              THEN /\ result' = <<QuestionExit(<<ques_resp>>)>>
                   /\ pc' = "done"
                   /\ UNCHANGED questions
              ELSE /\ questions' \in QuestionLists(text)
                   /\ pc' = "fetch"
                   /\ UNCHANGED result
  /\ UNCHANGED <<config, q2resp, dc_duration, table_parts, dc_calls,
                 tables_str, fetch_raised>>

QuestionLLM == QuestionLLMFrom(FlowQuesResponses)

\* calln without the try/except of lines 84-89: the exception leaves query
DataFetchUncaught ==
  /\ pc = "fetch"
  /\ \E out \in FetchOutcomes :
       /\ fetch_raised' = out.raised
       /\ IF out.raised
          THEN /\ pc' = "raised"
               /\ UNCHANGED <<q2resp, dc_duration>>
          ELSE /\ pc' = AfterFetch(validate_dc_responses)
               /\ q2resp' = out.values
               /\ \E d \in Elapsed : dc_duration' = <<d>>
  /\ invoked' = Append(invoked, Invocation("data_fetcher.calln", NoPrompt, <<>>))
  /\ UNCHANGED <<config, llm_calls, questions, table_parts, dc_calls,
                 tables_str, result>>

\* lines 82-92: calln under try/except, timed
DataFetch ==
  /\ pc = "fetch"
  /\ \E out \in FetchOutcomes :
       /\ q2resp' = IF out.raised THEN <<>> ELSE out.values
       /\ fetch_raised' = out.raised
  /\ \E d \in Elapsed : dc_duration' = <<d>>
  /\ invoked' = Append(invoked, Invocation("data_fetcher.calln", NoPrompt, <<>>))
  /\ pc' = AfterFetch(validate_dc_responses)
  /\ UNCHANGED <<config, llm_calls, questions, table_parts, dc_calls,
                 tables_str, result>>

\* lines 92-95
RunValidation ==
  /\ pc = "validate"
  /\ \E v \in run_validation(q2resp, llm_calls) :
       /\ q2resp' = v.q2resp
       /\ llm_calls' = v.llm_calls
  /\ invoked' = Append(invoked,
       Invocation("validate.run_validation", NoPrompt, <<>>))
  /\ pc' = "assemble"
  /\ UNCHANGED <<config, questions, dc_duration, table_parts, dc_calls,
                 tables_str, result, fetch_raised>>

\* lines 97-114; resp.id = tidx also changes the objects q2resp holds
AssembleTables ==
  /\ pc = "assemble"
  /\ LET st == TableLoop(LoopInit, q2resp)
     IN  /\ table_parts' = st.table_parts
         /\ dc_calls' = st.dc_calls
         /\ q2resp' = st.dc_calls
         /\ tables_str' = <<TablesStr(st.table_parts)>>
  /\ pc' = "answer"
  /\ UNCHANGED <<config, llm_calls, questions, dc_duration, result, invoked,
                 fetch_raised>>

\* lines 116-120 and, when no retry follows, 125-136
AnswerLLM ==
  /\ pc = "answer"
  /\ \E text \in AnswerTexts :
       LET prompt == FinalPrompt(query, table_parts)
           calls == Append(llm_calls, LLMCall(prompt, text))
       IN  /\ llm_calls' = calls
           /\ invoked' = Append(invoked,
                Invocation("llm_answer.query", prompt, text))
           /\ IF NeedsRetry(text)
              THEN /\ pc' = "retry"
                   /\ UNCHANGED result
              ELSE /\ pc' = "done"
                   /\ result' = <<Package(text, tables_str, calls,
                                          dc_duration, dc_calls)>>
  /\ UNCHANGED <<config, questions, q2resp, dc_duration, table_parts,
                 dc_calls, tables_str, fetch_raised>>

\* lines 121-136
RetryLLM ==
  /\ pc = "retry"
  /\ \E text \in AnswerTexts :
       LET prompt == RawText(query)
           calls == Append(llm_calls, LLMCall(prompt, text))
       IN  /\ llm_calls' = calls
           /\ invoked' = Append(invoked,
                Invocation("llm_answer.query", prompt, text))
           /\ pc' = "done"
           /\ result' = <<Package(text, tables_str, calls,
                                  dc_duration, dc_calls)>>
  /\ UNCHANGED <<config, questions, q2resp, dc_duration, table_parts,
                 dc_calls, tables_str, fetch_raised>>

Next ==
  \/ QuestionLLM
  \/ DataFetch
  \/ RunValidation
  \/ AssembleTables
  \/ AnswerLLM
  \/ RetryLLM

Spec == Init /\ [][Next]_vars

\* The extraction specification: one configuration, the question LLM
\* answering any text of AllQuesResponses, up to the call of calln.
InitQ ==
  /\ query = <<"q">>
  /\ in_context \in BOOLEAN
  /\ metrics_list \in MetricsLists
  /\ validate_dc_responses = FALSE
  /\ Idle

QuestionLLMAny == QuestionLLMFrom(AllQuesResponses)

NextQ == QuestionLLMAny

SpecQ == InitQ /\ [][NextQ]_vars

(***************************************************************************)
(* Properties                                                              *)
(***************************************************************************)
Returned == pc = "done" /\ result # <<>>

IsAnswerCall(e) == e.callee = "llm_answer.query"

\* the calls query() made to the answer LLM, in order
Answers == SelectSeq(invoked, IsAnswerCall)

Callees == [i \in 1..Len(invoked) |-> invoked[i].callee]

IsPrefix(s, t) == Len(s) <= Len(t) /\ SubSeq(t, 1, Len(s)) = s

\* C1: whatever the query and the mode, when the question LLM returns an
\* empty text, query returns a FlowResponse given nothing but the call list,
\* which holds exactly the question-LLM record; the fetcher, the validator
\* and the answer LLM are not called.
C1_EmptyQuestionResponseExits ==
  (invoked # <<>> /\ invoked[1].response = <<>>) =>
    /\ pc = "done"
    /\ Callees = <<"llm_question.query">>
    /\ result = <<[main_text |-> <<>>, tables_str |-> <<>>,
                   llm_calls |-> <<LLMCall(invoked[1].prompt, <<>>)>>,
                   dc_duration_secs |-> <<>>, dc_calls |-> <<>>]>>
    /\ invoked[1].prompt.sentence = query
    /\ invoked[1].prompt.template =
         (IF ~in_context THEN "RAG_FINE_TUNED_PROMPT"
          ELSE IF metrics_list = <<>> THEN "RAG_IN_CONTEXT_PROMPT"
          ELSE "RAG_IN_CONTEXT_PROMPT_WITH_VARS")

C1_Witness ==
  /\ Returned
  /\ invoked[1].response = <<>>
  /\ in_context
  /\ metrics_list # <<>>

\* q is the trimmed form of a newline-separated line of text: q occurs in
\* text, begins and ends with a character that is not whitespace, holds no
\* newline, and only whitespace lies between it and the line's two ends
IsTrimmedLineOf(q, text) ==
  /\ q # <<>>
  /\ q[1] \notin Whitespace
  /\ q[Len(q)] \notin Whitespace
  /\ \A k \in 1..Len(q) : q[k] # NL
  /\ \E c \in 1..(Len(text) - Len(q) + 1) :
       LET d == c + Len(q) - 1
       IN  /\ SubSeq(text, c, d) = q
           /\ \A k \in 1..(c - 1) :
                \/ text[k] \in Whitespace
                \/ \E j \in (k + 1)..(c - 1) : text[j] = NL
           /\ \A k \in (d + 1)..Len(text) :
                \/ text[k] \in Whitespace
                \/ \E j \in (d + 1)..(k - 1) : text[j] = NL

\* C2: the question list handed to calln has no duplicates, no empty or
\* whitespace-only entry, at most 25 entries, and each entry is the trimmed
\* form of a line of the question LLM's response.
C2_QuestionList ==
  pc = "fetch" =>
    /\ Len(questions) <= 25
    /\ \A i, j \in 1..Len(questions) : questions[i] = questions[j] => i = j
    /\ \A i \in 1..Len(questions) :
         /\ \E k \in 1..Len(questions[i]) : questions[i][k] \notin Whitespace
         /\ IsTrimmedLineOf(questions[i], llm_calls[1].response)

C2_Witness ==
  /\ pc = "fetch"
  /\ Len(questions) = 25
  /\ Len(StrippedLines(llm_calls[1].response)) > 50
  /\ Contains(<<NL, " ">>, llm_calls[1].response)

\* C3: when calln raises, no exception leaves query and the run goes on as
\* with an empty mapping: the duration is recorded, the validator runs if
\* enabled, no table part is made, the answer LLM is queried with the query.
C3_FetcherFailureIsEmptyMapping ==
  fetch_raised =>
    /\ pc \in {"validate", "assemble", "answer", "retry", "done"}
    /\ dc_duration # <<>>
    /\ q2resp = <<>>
    /\ pc \in {"answer", "retry", "done"} =>
         /\ table_parts = <<>>
         /\ dc_calls = <<>>
         /\ tables_str = << <<>> >>
         /\ IF validate_dc_responses
            THEN Callees[3] = "validate.run_validation"
            ELSE "validate.run_validation" \notin Range(Callees)
    /\ pc \in {"retry", "done"} =>
         /\ Answers # <<>>
         /\ Answers[1].prompt = RawText(query)
    /\ pc = "done" =>
         /\ result # <<>>
         /\ result[1].dc_duration_secs = dc_duration

C3_Witness ==
  /\ fetch_raised
  /\ Returned
  /\ validate_dc_responses
  /\ result[1].main_text # <<>>

\* C4: a first answer holding "[NO ANSWER]" is followed by exactly one retry
\* with the original query, both records are kept, and the retry alone
\* decides the outcome; without the marker there is no retry.
C4_RetryOnce ==
  /\ pc = "retry" =>
       /\ Len(Answers) = 1
       /\ Contains(NO_ANSWER, Answers[1].response)
  /\ (pc = "done" /\ Answers # <<>>) =>
       LET n == Len(Answers)
           m == Len(llm_calls)
           last == Answers[n].response
       IN  /\ n = (IF Contains(NO_ANSWER, Answers[1].response) THEN 2 ELSE 1)
           /\ n = 2 =>
                /\ Answers[2].prompt = RawText(query)
                /\ m >= 3
                /\ llm_calls[m - 1] =
                     LLMCall(Answers[1].prompt, Answers[1].response)
           /\ llm_calls[m] = LLMCall(Answers[n].prompt, last)
           /\ result # <<>>
           /\ result[1].llm_calls = llm_calls
           /\ result[1].main_text = (IF last = <<>> THEN <<>> ELSE <<last>>)

C4_Witness ==
  /\ Returned
  /\ Len(Answers) = 2
  /\ Answers[1].response = <<"x">> \o NO_ANSWER \o <<"y">>
  /\ Answers[2].response = NO_ANSWER
  /\ result[1].main_text = <<NO_ANSWER>>

\* C5: table assembly gives every response of the mapping its 1-based
\* position as id, with or without a table line, and the retrieval results
\* list all of them in the mapping's order.
C5_IdsArePositions ==
  [][pc = "assemble" =>
       /\ Len(dc_calls') = Len(q2resp)
       /\ \A i \in 1..Len(q2resp) :
            dc_calls'[i] = [q2resp[i] EXCEPT !.id = i]
       /\ q2resp' = dc_calls']_vars

C5_Witness ==
  /\ pc = "answer"
  /\ Len(dc_calls) = 2
  /\ dc_calls[1].table = <<>>
  /\ dc_calls[2].id = 2
  /\ dc_calls[2].title = dc_calls[1].title
  /\ Len(table_parts) = 1

HasTable(r) == r.table # <<>>

\* the positions whose response has a table and a title that no earlier
\* response with a table has
FirstOfTitle ==
  {i \in 1..Len(dc_calls) :
     /\ HasTable(dc_calls[i])
     /\ \A j \in 1..(i - 1) :
          HasTable(dc_calls[j]) => dc_calls[j].title # dc_calls[i].title}

\* C6: the table parts are, in order, "Table {index}: {answer}" of exactly
\* the responses that have a table and are the first with a table of their
\* title; responses without a table add no line and hide no title.
C6_FirstTitleWins ==
  pc \in {"answer", "retry", "done"} =>
    /\ Len(table_parts) = Cardinality(FirstOfTitle)
    /\ \A i \in FirstOfTitle :
         table_parts[Cardinality({j \in FirstOfTitle : j <= i})] =
           TableLine(i, dc_calls[i].ans)

C6_Witness ==
  /\ pc = "answer"
  /\ Len(dc_calls) = 2
  /\ HasTable(dc_calls[1])
  /\ HasTable(dc_calls[2])
  /\ dc_calls[1].title = dc_calls[2].title
  /\ dc_calls[1].ans # dc_calls[2].ans
  /\ table_parts = <<TableLine(1, dc_calls[1].ans)>>

\* C7 as stated: when no table part was produced, the returned response
\* carries no retrieval responses.
C7_AsStated ==
  (Returned /\ table_parts = <<>>) => result[1].dc_calls \in {<<>>, << <<>> >>}

\* C7 as amended: the returned response carries the retrieval responses,
\* all of them, exactly when it carries a main text, whether or not a table
\* part was produced.
C7_ResultsWithMainText ==
  Returned =>
    result[1].dc_calls =
      (IF result[1].main_text # <<>> THEN <<q2resp>> ELSE <<>>)

C7_Witness ==
  /\ Returned
  /\ table_parts = <<>>
  /\ Len(q2resp) = 2
  /\ result[1].dc_calls = <<q2resp>>

RECURSIVE Offset(_, _)
Offset(parts, k) ==
  IF k = 1 THEN 0 ELSE Offset(parts, k - 1) + Len(parts[k - 1]) + 1

\* text is the parts in order with one newline between neighbours
IsJoinOf(text, parts) ==
  LET n == Len(parts)
  IN  /\ n > 0
      /\ Len(text) = Offset(parts, n) + Len(parts[n])
      /\ \A k \in 1..n :
           /\ SubSeq(text, Offset(parts, k) + 1,
                     Offset(parts, k) + Len(parts[k])) = parts[k]
           /\ k < n => text[Offset(parts, k) + Len(parts[k]) + 1] = NL

\* C8: with no table part the first answer prompt is the query itself and
\* the tables text is ''; otherwise the prompt is the final-answer template
\* filled with the query and the newline-joined table parts, and the tables
\* text is that joined text.
C8_FirstAnswerPrompt ==
  Answers # <<>> =>
    LET p == Answers[1].prompt
    IN  /\ (\A i \in 1..Len(dc_calls) : ~HasTable(dc_calls[i])) =>
             table_parts = <<>>
        /\ tables_str # <<>>
        /\ IF table_parts = <<>>
           THEN /\ p.template = "{sentence}"
                /\ p.sentence = query
                /\ tables_str[1] = <<>>
           ELSE /\ p.template = "RAG_FINAL_ANSWER_PROMPT"
                /\ p.sentence = query
                /\ IsJoinOf(p.table_str, table_parts)
                /\ tables_str[1] = p.table_str

C8_Witness ==
  /\ Answers # <<>>
  /\ Len(table_parts) = 2
  /\ Answers[1].prompt.template = "RAG_FINAL_ANSWER_PROMPT"

\* C9: when the answer that decides the outcome is empty, the result holds
\* only the call list and the duration, even if table parts were made;
\* otherwise it holds that answer as main text, the tables text, the call
\* list, the duration and the retrieval results.
C9_EmptyAnswerExit ==
  (pc = "done" /\ Answers # <<>>) =>
    LET last == Answers[Len(Answers)].response
    IN  /\ dc_duration # <<>>
        /\ result # <<>>
        /\ result[1].llm_calls = llm_calls
        /\ result[1].dc_duration_secs = dc_duration
        /\ IF last = <<>>
           THEN /\ result[1].main_text = <<>>
                /\ result[1].tables_str = <<>>
                /\ result[1].dc_calls = <<>>
           ELSE /\ result[1].main_text = <<last>>
                /\ result[1].tables_str = tables_str
                /\ result[1].dc_calls = <<dc_calls>>

C9_Witness ==
  /\ Returned
  /\ Len(Answers) = 2
  /\ Answers[2].response = <<>>
  /\ table_parts # <<>>
  /\ result[1].tables_str = <<>>

\* the calls of a complete run that got past the question LLM
FullRun(retried) ==
  <<"llm_question.query", "data_fetcher.calln">>
    \o (IF validate_dc_responses THEN <<"validate.run_validation">> ELSE <<>>)
    \o (IF retried THEN <<"llm_answer.query", "llm_answer.query">>
        ELSE <<"llm_answer.query">>)

\* C10: query calls the question LLM once and first; after a non-empty
\* response the fetcher once, even with no question; then the validator
\* once if and only if validation is enabled; then the answer LLM once or
\* twice.  The returned call list begins with the question record and ends
\* with the record of the answer that decided the outcome.
C10_CallOrder ==
  /\ IsPrefix(Callees, FullRun(TRUE))
  /\ pc # "ask" => Len(invoked) >= 1
  /\ pc = "done" =>
       /\ result # <<>>
       /\ result[1].llm_calls[1] =
            LLMCall(invoked[1].prompt, invoked[1].response)
       /\ IF invoked[1].response = <<>>
          THEN Callees = <<"llm_question.query">>
          ELSE /\ Callees \in {FullRun(FALSE), FullRun(TRUE)}
               /\ result[1].llm_calls[Len(result[1].llm_calls)] =
                    LLMCall(invoked[Len(invoked)].prompt,
                            invoked[Len(invoked)].response)

C10_Witness ==
  /\ Returned
  /\ questions = <<>>
  /\ validate_dc_responses
  /\ Callees = FullRun(TRUE)
  /\ Len(llm_calls) = 4

====
